---- MODULE Spec2Model ----
(***************************************************************************)
(* Model of python/Allianz_script.py: the chunked star-schema pipeline     *)
(* (load_data -> validate_data -> encrypt_data -> extract_*_dimension ->   *)
(* create_sales_df -> upload_dimension x2 -> upload_data -> save_to_csv).  *)
(*                                                                         *)
(* Representation.  A string is a sequence of one-character strings, the   *)
(* empty sequence being a missing cell (read_csv reads an empty cell as    *)
(* NaN).  A numeric cell is a fraction [num, den] in lowest terms, den = 0 *)
(* being NaN.  A data frame is [cols, rows] with every row a function on   *)
(* cols.  Surrogate keys and counters are plain integers.                  *)
(***************************************************************************)
EXTENDS Integers, Sequences, FiniteSets, TLC

VARIABLES
    source,               \* the CSV file: a frame of raw records
    chunksize,            \* config['file']['chunksize']
    encrypt,              \* config['encryption']['encrypt']
    run,                  \* number of the process working on the store
    pc,                   \* position of main()
    config_key,           \* config['encryption']['key'] in the configuration file
    cipher,               \* key of the Fernet instance of this process
    keys,                 \* number of keys Fernet.generate_key() has produced
    iv,                   \* number of tokens Fernet.encrypt() has produced
    pos,                  \* rows of the source the generator has consumed
    batch,                \* number of the chunk main() is working on
    chunk,                \* main(): chunk
    customer_df,          \* main(): customer_df
    product_df,           \* main(): product_df
    sales_df,             \* main(): sales_df
    last_transaction_id,  \* module global
    last_customer_id,     \* module global
    last_product_id,      \* module global
    store,                \* the three tables of the target database
    csv,                  \* the three exported files
    custLog,              \* history: customer rows extracted in this run
    prodLog,              \* history: product rows extracted in this run
    txLog,                \* history: transaction_id values assigned in this run
    factLog,              \* history: the source record of each fact row of this run
    loadLog,              \* history: the load calls of this run
    keyLog,               \* history: the key provisioning of this process
    prev                  \* history: how the previous process left the store

vars == <<source, chunksize, encrypt, run, pc, config_key, cipher, keys, iv, pos, batch,
          chunk, customer_df, product_df, sales_df,
          last_transaction_id, last_customer_id, last_product_id,
          store, csv, custLog, prodLog, txLog, factLog, loadLog, keyLog, prev>>

(***************************************************************************)
(* Bounds of the model.                                                    *)
(***************************************************************************)
MaxRows == 3
MaxChunk == 2
MaxGateRows == 2
MaxLoads == 2
MaxLoaderRows == 4
MaxFaultRow == 2
MaxKeyRows == 2
MaxSchemaRows == 2
MaxRerunRows == 2

(***************************************************************************)
(* Sequences, strings, numbers.                                            *)
(***************************************************************************)
SeqsUpTo(S, n) == UNION {[1..k -> S] : k \in 0..n}

RECURSIVE SelectIdx(_, _, _)
\* the subsequence of s at the positions i >= from where keep[i] holds
SelectIdx(s, keep, from) ==
    IF from > Len(s) THEN << >>
    ELSE IF keep[from] THEN <<s[from]>> \o SelectIdx(s, keep, from + 1)
    ELSE SelectIdx(s, keep, from + 1)

RECURSIVE Flatten(_)
Flatten(ss) == IF ss = << >> THEN << >> ELSE Head(ss) \o Flatten(Tail(ss))

RECURSIVE GCD(_, _)
GCD(a, b) == IF b = 0 THEN a ELSE GCD(b, a % b)

Abs(n) == IF n < 0 THEN -n ELSE n

NaN == [num |-> 0, den |-> 0]

Frac(n, d) ==
    IF d = 0 THEN NaN
    ELSE LET g == GCD(Abs(n), d) IN [num |-> n \div g, den |-> d \div g]

Num(n) == [num |-> n, den |-> 1]

Digit == <<"0", "1", "2", "3", "4", "5", "6", "7", "8", "9">>

RECURSIVE NatToStr(_)
NatToStr(n) ==
    IF n < 10 THEN <<Digit[n + 1]>>
    ELSE NatToStr(n \div 10) \o <<Digit[(n % 10) + 1]>>

\* str() of a Python int
IntToStr(n) == IF n < 0 THEN <<"-">> \o NatToStr(-n) ELSE NatToStr(n)

\* Series.astype(str) on a cell of an int64 column; NaN prints as nan
NumToStr(x) == IF x.den = 0 THEN <<"n", "a", "n">> ELSE IntToStr(x.num)

UpperOf == [c \in {"a", "b", "c", "p", "q", "r", "t", "x", "h"} |->
              CASE c = "a" -> "A" [] c = "b" -> "B" [] c = "c" -> "C"
                [] c = "p" -> "P" [] c = "q" -> "Q" [] c = "r" -> "R"
                [] c = "t" -> "T" [] c = "x" -> "X" [] c = "h" -> "H"]

\* str.upper()
Upper(s) == [i \in 1..Len(s) |-> IF s[i] \in DOMAIN UpperOf THEN UpperOf[s[i]] ELSE s[i]]

\* str.replace(" ", "_")
ReplaceSpaces(s) == [i \in 1..Len(s) |-> IF s[i] = " " THEN "_" ELSE s[i]]

RECURSIVE SplitFrom(_, _, _)
SplitFrom(s, d, cur) ==
    IF Len(s) < Len(d) THEN <<cur \o s>>
    ELSE IF SubSeq(s, 1, Len(d)) = d
         THEN <<cur>> \o SplitFrom(SubSeq(s, Len(d) + 1, Len(s)), d, << >>)
         ELSE SplitFrom(Tail(s), d, Append(cur, Head(s)))

\* str.split(d)
Split(s, d) == SplitFrom(s, d, << >>)

RECURSIVE Join(_, _)
\* d.join(parts)
Join(parts, d) ==
    IF parts = << >> THEN << >>
    ELSE IF Len(parts) = 1 THEN parts[1]
    ELSE parts[1] \o d \o Join(Tail(parts), d)

(***************************************************************************)
(* Data frames.                                                            *)
(***************************************************************************)
NumCols == {"year_of_birth", "premium", "quantity", "age"}

IdCols == {"customer_id", "product_id", "transaction_id"}

SourceCols == {"personal_id", "name", "country", "year_of_birth", "income_range",
               "company", "product", "premium", "quantity", "timestamp"}

NoFrame == [cols |-> {}, rows |-> << >>]

\* None, as a cell of a text column
NoneStr == <<"<NA>">>

\* NULL surrogate key (an unmatched left join)
NullId == -1

IsNull(c, v) == IF c \in NumCols THEN v.den = 0 ELSE v = << >>

DropCols(df, cs) ==
    [cols |-> df.cols \ cs,
     rows |-> [i \in 1..Len(df.rows) |-> [c \in df.cols \ cs |-> df.rows[i][c]]]]

Project(r, cs) == [c \in cs |-> r[c]]


(***************************************************************************)
(* The inputs: the raw records of the source file.                         *)
(***************************************************************************)
CurrentYear == 2026

MkRecord(pid, name, yob, income, company, product, premium, qty) ==
    [personal_id |-> pid, name |-> name, country |-> <<"x">>,
     year_of_birth |-> yob, income_range |-> income,
     company |-> company, product |-> product, premium |-> premium,
     quantity |-> Num(qty), timestamp |-> <<"t">>]

\* Three customers; the first two differ in personal_id and in name
CustA == <<<<"a">>, <<"b", "/", "/", "c">>>>
CustB == <<<<"a", "b">>, <<"/", "/", "c">>>>
CustC == <<<<"c">>, <<"a", " ", "b">>>>

\* Two products
ProdP == <<<<"x">>, <<"p", "|", "q">>>>
ProdR == <<<<"x">>, <<"r">>>>

Rec(cu, pr, yob, premium, qty) ==
    MkRecord(cu[1], cu[2], Num(yob), <<"h">>, pr[1], pr[2], Num(premium), qty)

Records ==
    { Rec(CustA, ProdP, 1990, 5, 1),
      Rec(CustB, ProdP, 1990, 5, 1),
      Rec(CustC, ProdR, 1990, 5, 2),
      Rec(CustA, ProdR, 1990, 5, 1),
      Rec(CustC, ProdP, 2010, 5, 1) }      \* age 16: the gate drops it

\* The records of the quality gate's own specification: ages on both sides of
\* both limits, missing cells, premiums on both sides of 0
GateRecords ==
    { MkRecord(<<"a">>, <<"c">>, yob, inc, <<"x">>, <<"r">>, prem, 1) :
        yob \in {Num(1925), Num(1926), Num(2009), Num(2010), NaN},
        inc \in {<< >>, <<"h">>},
        prem \in {Num(-1), Num(0), NaN} }

Tables == {"dim_customer", "dim_product", "sales"}

NoTable == [exists |-> FALSE, cols |-> {}, rows |-> << >>]

(***************************************************************************)
(* load_data: the generator of chunks.                                     *)
(***************************************************************************)
TextCols(cols) == cols \ NumCols

\* one chunk as load_data yields it: string cells in upper case
NormalizeChunk(cols, rows) ==
    [cols |-> cols,
     rows |-> [i \in 1..Len(rows) |->
                 [c \in cols |-> IF c \in TextCols(cols) THEN Upper(rows[i][c])
                                 ELSE rows[i][c]]]]

Min(a, b) == IF a < b THEN a ELSE b

\* the chunk that starts after `from` rows of the file
ReadChunk(src, from, size) ==
    NormalizeChunk(src.cols, SubSeq(src.rows, from + 1, Min(from + size, Len(src.rows))))

\* the chunk main() is working on, as load_data yielded it
CurrentRaw == ReadChunk(source, (batch - 1) * chunksize, chunksize)

(***************************************************************************)
(* validate_data                                                           *)
(***************************************************************************)
RECURSIVE SumNum(_, _)
SumNum(rows, c) ==
    IF rows = << >> THEN 0
    ELSE (IF Head(rows)[c].den = 0 THEN 0 ELSE Head(rows)[c].num) + SumNum(Tail(rows), c)

\* Series.mean() of a column of integers and NaN: NaN is skipped
Mean(rows, c) ==
    LET present == {i \in 1..Len(rows) : rows[i][c].den # 0}
    IN  Frac(SumNum(rows, c), Cardinality(present))

\* Series.between(lo, hi): inclusive on both sides, False for NaN
Between(x, lo, hi) == x.den # 0 /\ lo * x.den <= x.num /\ x.num <= hi * x.den

IsNegative(x) == x.den # 0 /\ x.num < 0

NotNegative(x) == x.den # 0 /\ x.num >= 0

\* current_year - year_of_birth
AgeOf(yob) == IF yob.den = 0 THEN NaN ELSE Frac(CurrentYear * yob.den - yob.num, yob.den)

FillNa(df) ==
    LET m == Mean(df.rows, "year_of_birth")
    IN  [df EXCEPT !.rows =
           [i \in 1..Len(df.rows) |->
              [c \in df.cols |->
                 CASE c = "income_range" /\ df.rows[i][c] = << >> -> <<"Middle Earner">>
                   [] c = "year_of_birth" /\ df.rows[i][c].den = 0 -> m
                   [] OTHER -> df.rows[i][c]]]]

ValidateData(df) ==
    LET anyNull == \E i \in 1..Len(df.rows) : \E c \in df.cols : IsNull(c, df.rows[i][c])
        filled  == IF anyNull THEN FillNa(df) ELSE df
        aged    == [i \in 1..Len(filled.rows) |->
                      ("age" :> AgeOf(filled.rows[i].year_of_birth)) @@ filled.rows[i]]
        inAge   == [i \in 1..Len(aged) |-> Between(aged[i].age, 17, 100)]
        r1      == IF \A i \in 1..Len(aged) : inAge[i] THEN aged
                   ELSE SelectIdx(aged, inAge, 1)
        anyNeg  == \E i \in 1..Len(r1) : IsNegative(r1[i].premium)
        r2      == IF anyNeg
                   THEN SelectIdx(r1, [i \in 1..Len(r1) |-> NotNegative(r1[i].premium)], 1)
                   ELSE r1
    IN  [cols |-> df.cols \cup {"age"}, rows |-> r2]


(***************************************************************************)
(* encrypt_data                                                            *)
(***************************************************************************)
\* cipher.encrypt(x): a Fernet token carries the key's signature, a fresh
\* 128-bit IV and the current time next to the ciphertext of x, so the n-th
\* token ever made differs from every earlier one
Token(key, n, x) == <<"[">> \o IntToStr(key) \o <<":">> \o IntToStr(n) \o <<":">> \o x \o <<"]">>

EncryptData(df, key, enc, made) ==
    IF enc /\ "personal_id" \in df.cols
    THEN [df EXCEPT !.rows =
            [i \in 1..Len(df.rows) |->
               [df.rows[i] EXCEPT !.personal_id = Token(key, made + i, @)]]]
    ELSE df

\* the tokens one call of encrypt_data makes
TokensMade(df, enc) == IF enc /\ "personal_id" \in df.cols THEN Len(df.rows) ELSE 0

(***************************************************************************)
(* extract_customer_dimension, extract_product_dimension                   *)
(***************************************************************************)
CustomerCols == {"personal_id", "name", "country", "year_of_birth", "income_range"}

ProductCols == {"company", "product", "premium"}

KeepAll(rows) == rows

\* DataFrame.drop_duplicates().reset_index(drop=True): the first of equal rows stays
DropDuplicates(rows) ==
    SelectIdx(rows, [i \in 1..Len(rows) |-> \A j \in 1..(i - 1) : rows[j] # rows[i]], 1)

ExtractDimension(df, keyCols, idCol, last) ==
    LET distinct == DropDuplicates([i \in 1..Len(df.rows) |-> Project(df.rows[i], keyCols)])
    IN  [cols |-> keyCols \cup {idCol},
         rows |-> [i \in 1..Len(distinct) |-> (idCol :> (last + i)) @@ distinct[i]]]

ExtractCustomerDimension(df, last) == ExtractDimension(df, CustomerCols, "customer_id", last)

ExtractProductDimension(df, last) == ExtractDimension(df, ProductCols, "product_id", last)

\* the value of the counter after the call: neither function assigns its global
CounterAfterExtract(last, extracted) == last

(***************************************************************************)
(* create_sales_df                                                         *)
(***************************************************************************)
RequiredColumns == {"timestamp", "quantity", "company", "product", "premium",
                    "personal_id", "name", "country", "year_of_birth", "income_range"}

ProductMergeKey(r) == r.company \o r.product \o NumToStr(r.premium)

CustomerMergeKey(r) ==
    r.personal_id \o r.name \o r.country \o NumToStr(r.year_of_birth) \o r.income_range

\* the merge key of a row, for the product or for the customer dimension
MergeKey(idCol, r) ==
    IF idCol = "product_id" THEN ProductMergeKey(r) ELSE CustomerMergeKey(r)

AddMergeKey(df, idCol) ==
    [cols |-> df.cols \cup {"merge_key"},
     rows |-> [i \in 1..Len(df.rows) |->
                 ("merge_key" :> MergeKey(idCol, df.rows[i])) @@ df.rows[i]]]

\* left.merge(right[['merge_key', idCol]], how='left'): left order kept, one
\* output row per matching right row, a NULL key when none matches
LeftMerge(left, right, idCol) ==
    Flatten([i \in 1..Len(left) |->
       LET hits == SelectIdx(right,
                     [j \in 1..Len(right) |->
                        right[j].merge_key = MergeKey(idCol, left[i])], 1)
       IN  IF hits = << >> THEN <<(idCol :> NullId) @@ left[i]>>
           ELSE [j \in 1..Len(hits) |-> (idCol :> hits[j][idCol]) @@ left[i]]])

Max(a, b) == IF a > b THEN a ELSE b

RECURSIVE MaxLen(_)
MaxLen(ss) == IF ss = << >> THEN 0 ELSE Max(Len(Head(ss)), MaxLen(Tail(ss)))

\* the sub-attribute split of one dimension: col replaced, split on delim,
\* two new columns when str.split(expand=True) has exactly two columns
SplitColumn(df, col, delim, first, second, replace) ==
    LET rows  == [i \in 1..Len(df.rows) |->
                    IF replace THEN [df.rows[i] EXCEPT ![col] = ReplaceSpaces(@)]
                    ELSE df.rows[i]]
        parts == [i \in 1..Len(rows) |-> Split(rows[i][col], delim)]
        wide  == IF MaxLen(parts) = 2
                 THEN [cols |-> df.cols \cup {first, second},
                       rows |-> [i \in 1..Len(rows) |->
                                  (first :> parts[i][1]) @@
                                  (second :> IF Len(parts[i]) = 2 THEN parts[i][2] ELSE NoneStr)
                                  @@ rows[i]]]
                 ELSE [cols |-> df.cols, rows |-> rows]
    IN  DropCols(wide, {col})

\* the transaction_id of the i-th fact row assembled with the counter at last
TransactionId(last, i) == last + i

TransactionCounterFrozen(last, n) == last

\* the counter after n fact rows
TransactionCounterAfter(last, n) == last + n

CreateSalesDf(df, cdf, pdf, last) ==
    LET s0   == [i \in 1..Len(df.rows) |->
                   ("sale_date" :> df.rows[i].timestamp) @@
                   Project(df.rows[i], RequiredColumns \ {"timestamp"})]
        pdf1 == AddMergeKey(pdf, "product_id")
        s1   == LeftMerge(s0, pdf1.rows, "product_id")
        cdf1 == AddMergeKey(cdf, "customer_id")
        s2   == LeftMerge(s1, cdf1.rows, "customer_id")
        n    == Len(s2)
    IN  [sales_df |->
           [cols |-> {"transaction_id", "customer_id", "product_id", "quantity", "sale_date"},
            rows |-> [i \in 1..n |->
                        [transaction_id |-> TransactionId(last, i),
                         customer_id |-> s2[i].customer_id,
                         product_id |-> s2[i].product_id,
                         quantity |-> s2[i].quantity,
                         sale_date |-> s2[i].sale_date]]],
         product_df |-> SplitColumn(pdf1, "product", <<"|">>,
                                    "product_category", "product_detail", TRUE),
         customer_df |-> SplitColumn(cdf1, "name", <<"/", "/">>,
                                     "first_name", "last_name", TRUE),
         last_transaction_id |-> TransactionCounterAfter(last, n),
         \* the merged rows of lines 187-202, before line 215 projects them
         facts |-> [i \in 1..n |-> [customer |-> Project(s2[i], CustomerCols),
                                    product |-> Project(s2[i], ProductCols)]]]


(***************************************************************************)
(* filter_existing_data, upload_dimension, upload_data                     *)
(***************************************************************************)
CompositeKeyColumns(table) ==
    IF table = "sales" THEN <<"customer_id", "product_id", "sale_date", "quantity">>
    ELSE <<"merge_key">>

\* astype(str) of one cell
CellToStr(c, v) ==
    IF c \in IdCols THEN (IF v = NullId THEN <<"n", "a", "n">> ELSE IntToStr(v))
    ELSE IF c \in NumCols THEN NumToStr(v)
    ELSE v

\* df[composite_key_columns].astype(str).agg('-'.join, axis=1), for one row
CompositeKey(r, table) ==
    LET cs == CompositeKeyColumns(table)
    IN  Join([i \in 1..Len(cs) |-> CellToStr(cs[i], r[cs[i]])], <<"-">>)

\* the composite keys SELECTed from the table
ExistingKeys(tbl, table) == {CompositeKey(tbl.rows[i], table) : i \in 1..Len(tbl.rows)}

FilterNothing(df, tbl, table) == [filtered |-> df, df |-> df]

\* filter_existing_data: the frame it returns, and df as the call leaves it
FilterExistingData(df, tbl, table) ==
    IF ~tbl.exists THEN [filtered |-> df, df |-> df]
    ELSE LET existing == ExistingKeys(tbl, table)
             keyed    == [cols |-> df.cols \cup {"composite_key"},
                          rows |-> [i \in 1..Len(df.rows) |->
                                     ("composite_key" :> CompositeKey(df.rows[i], table))
                                     @@ df.rows[i]]]
             fresh    == [i \in 1..Len(keyed.rows) |->
                            keyed.rows[i].composite_key \notin existing]
         IN  [filtered |-> DropCols([cols |-> keyed.cols,
                                     rows |-> SelectIdx(keyed.rows, fresh, 1)],
                                    {"composite_key"}),
              df |-> keyed]

NullCell(c) == IF c \in IdCols THEN NullId ELSE IF c \in NumCols THEN NaN ELSE NoneStr

\* to_sql(if_exists='replace'): the table holds the frame and nothing else
ToSqlReplace(tbl, df) ==
    [raised |-> FALSE, table |-> [exists |-> TRUE, cols |-> df.cols, rows |-> df.rows]]

\* DataFrame.to_sql(if_exists='append'): creates the table from the frame, or
\* inserts into the existing columns; a column the table lacks is a store error
ToSql(tbl, df) ==
    IF ~tbl.exists
    THEN [raised |-> FALSE, table |-> [exists |-> TRUE, cols |-> df.cols, rows |-> df.rows]]
    ELSE IF df.cols \subseteq tbl.cols
    THEN [raised |-> FALSE,
          table |-> [tbl EXCEPT !.rows = @ \o
                       [i \in 1..Len(df.rows) |->
                          [c \in tbl.cols |-> IF c \in df.cols THEN df.rows[i][c]
                                              ELSE NullCell(c)]]]]
    ELSE [raised |-> TRUE, table |-> tbl]

\* Where the store fails a load: creating the connection, a query of
\* filter_existing_data, the INSERT of the row-th row of to_sql, or commit()
NoFault == [at |-> "none", row |-> 0]

Faults ==
    {[at |-> a, row |-> 0] : a \in {"none", "connect", "query", "commit"}}
    \cup {[at |-> "insert", row |-> k] : k \in 1..MaxFaultRow}

NoNewRowsLine == "No new rows to upload."

UploadedLine == "new rows uploaded successfully."

ErrorLine == "Error uploading data to SQL Server"

\* what the table holds when the with-block is left: the pending writes of
\* a connection closed without commit() are rolled back
CloseConnection(tbl, pending, committed) == IF committed THEN pending ELSE tbl

\* a load that runs to_sql on an empty frame as well
UploadAlwaysWrites(df, st, table, fault) ==
    LET f == FilterExistingData(df, st[table], table)
        w == ToSql(st[table], f.filtered)
    IN  [raised |-> w.raised,
         store |-> [st EXCEPT ![table] = w.table],
         df |-> f.df,
         appended |-> IF w.raised THEN 0 ELSE Len(f.filtered.rows),
         candidate |-> df, filtered |-> f.filtered, before |-> st[table],
         opened |-> TRUE, closed |-> TRUE,
         written |-> IF w.raised THEN 0 ELSE Len(f.filtered.rows),
         committed |-> ~w.raised,
         logged |-> IF w.raised THEN <<ErrorLine>>
                    ELSE IF f.filtered.rows = << >> THEN <<NoNewRowsLine>>
                    ELSE <<UploadedLine>>]

\* the INSERTs of to_sql: the row whose INSERT raises (0 when none does), the
\* rows written before it, and the table with the rows pending
Inserted(w, n, fault) ==
    IF w.raised THEN [failed |-> 1, written |-> 0, table |-> w.table]
    ELSE IF fault.at = "insert" /\ fault.row <= n
    THEN [failed |-> fault.row, written |-> fault.row - 1, table |-> w.table]
    ELSE [failed |-> 0, written |-> n, table |-> w.table]

\* lines 252-258: to_sql when the filtered frame is not empty
WriteRows(tbl, frame, fault) ==
    IF frame.rows # << >> THEN Inserted(ToSql(tbl, frame), Len(frame.rows), fault)
    ELSE [failed |-> 0, written |-> 0, table |-> tbl]

\* lines 252-264, given what filter_existing_data returned: the write, the
\* commit when no statement before it raised, the exit of the with-block
\* and, on an error, the except clause
WriteAndCommit(df, st, table, f, ins, committed) ==
    [raised |-> ~committed,
     store |-> [st EXCEPT ![table] = CloseConnection(st[table], ins.table, committed)],
     df |-> f.df,
     appended |-> IF committed THEN ins.written ELSE 0,
     candidate |-> df, filtered |-> f.filtered, before |-> st[table],
     opened |-> TRUE, closed |-> TRUE,
     written |-> ins.written, committed |-> committed,
     logged |-> (IF f.filtered.rows = << >> THEN <<NoNewRowsLine>>
                 ELSE IF ins.failed = 0 THEN <<UploadedLine>>
                 ELSE << >>)
                \o (IF committed THEN << >> ELSE <<ErrorLine>>)]

\* lines 250-264, given what filter_existing_data returned
LoadFiltered(df, st, table, fault, f, ins) ==
    WriteAndCommit(df, st, table, f, ins, ins.failed = 0 /\ fault.at # "commit")

\* One load: the body of upload_dimension and of upload_data.  A store error
\* leaves the with-block before connection.commit() and is logged and
\* re-raised by the except clause.
Upload(df, st, table, fault) ==
    IF fault.at \in {"connect", "query"}
    THEN [raised |-> TRUE, store |-> st, df |-> df, appended |-> 0,
          candidate |-> df, filtered |-> NoFrame, before |-> st[table],
          opened |-> fault.at = "query", closed |-> fault.at = "query",
          written |-> 0, committed |-> FALSE, logged |-> <<ErrorLine>>]
    ELSE LET f == FilterExistingData(df, st[table], table)
         IN  LoadFiltered(df, st, table, fault, f, WriteRows(st[table], f.filtered, fault))

\* a load that skips filter_existing_data
UploadUnfiltered(df, st, table, fault) ==
    LET w == IF df.rows # << >> THEN ToSql(st[table], df)
             ELSE [raised |-> FALSE, table |-> st[table]]
        down == fault.at # "none"
    IN  [raised |-> down \/ w.raised,
         store |-> IF down THEN st ELSE [st EXCEPT ![table] = w.table],
         df |-> df,
         appended |-> IF down \/ w.raised THEN 0 ELSE Len(df.rows),
         candidate |-> df, filtered |-> df, before |-> st[table],
         opened |-> TRUE, closed |-> TRUE,
         written |-> IF down \/ w.raised THEN 0 ELSE Len(df.rows),
         committed |-> ~(down \/ w.raised),
         logged |-> IF down \/ w.raised THEN <<ErrorLine>> ELSE <<UploadedLine>>]

UploadDimension(df, st, table, fault) == Upload(df, st, table, fault)

UploadData(df, st, table, fault) == Upload(df, st, table, fault)

LoadEntry(r, table) ==
    [batch |-> batch, table |-> table, again |-> FALSE,
     raised |-> r.raised, appended |-> r.appended,
     candidate |-> r.candidate, filtered |-> r.filtered, before |-> r.before,
     after |-> r.store[table],
     opened |-> r.opened, closed |-> r.closed, written |-> r.written,
     committed |-> r.committed, logged |-> r.logged]

(***************************************************************************)
(* save_to_csv, three times, inside one try                                *)
(***************************************************************************)
ExportOrder == <<"dim_customer", "dim_product", "sales">>

RECURSIVE SaveAll(_, _, _)
\* the files after the saves from position k on; SELECT on a missing table
\* raises, and the except of main() ends the block
SaveAll(files, st, k) ==
    IF k > Len(ExportOrder) THEN files
    ELSE IF ~st[ExportOrder[k]].exists THEN files
    ELSE SaveAll([files EXCEPT ![ExportOrder[k]] =
                    [exists |-> TRUE, cols |-> st[ExportOrder[k]].cols,
                     rows |-> st[ExportOrder[k]].rows]], st, k + 1)


(***************************************************************************)
(* main(): one action per statement of the loop.                           *)
(***************************************************************************)
EmptyStore == [t \in Tables |-> NoTable]

config == <<source, chunksize, encrypt>>

keyring == <<config_key, keyLog, cipher, keys>>

counters == <<last_transaction_id, last_customer_id, last_product_id>>

frames == <<chunk, customer_df, product_df, sales_df>>

logs == <<custLog, prodLog, txLog, factLog, loadLog>>

\* no key in the configuration
NoKey == -1

\* the key the configuration file holds when it has one from the outset
GivenKey == 0

NotProvisioned == [found |-> NoKey, made |-> 0, saves |-> 0]

ProcessStart ==
    /\ pc = "start"
    /\ cipher = NoKey
    /\ keyLog = NotProvisioned
    /\ pos = 0
    /\ batch = 0
    /\ chunk = NoFrame
    /\ customer_df = NoFrame
    /\ product_df = NoFrame
    /\ sales_df = NoFrame
    /\ last_transaction_id = 0
    /\ last_customer_id = 0
    /\ last_product_id = 0
    /\ custLog = << >>
    /\ prodLog = << >>
    /\ txLog = << >>
    /\ factLog = << >>
    /\ loadLog = << >>

Init ==
    /\ source \in {[cols |-> SourceCols, rows |-> rs] : rs \in SeqsUpTo(Records, MaxRows)}
    /\ chunksize \in 1..MaxChunk
    /\ encrypt \in BOOLEAN
    /\ config_key = (IF encrypt THEN NoKey ELSE GivenKey)
    /\ run = 1
    /\ keys = 0
    /\ iv = 0
    /\ store = EmptyStore
    /\ csv = EmptyStore
    /\ prev = [outcome |-> "none", store |-> EmptyStore]
    /\ ProcessStart

\* lines 301-313.  With encrypt set a key is generated, stored in the
\* configuration and saved; else the key of the configuration is loaded, and
\* the KeyError of a configuration without one ends the process
StartMain ==
    /\ pc = "start"
    /\ IF encrypt
       THEN /\ keys' = keys + 1
            /\ config_key' = keys + 1
            /\ cipher' = keys + 1
            /\ keyLog' = [found |-> config_key, made |-> 1, saves |-> 1]
            /\ pc' = "load"
       ELSE /\ keys' = keys
            /\ config_key' = config_key
            /\ cipher' = config_key
            /\ keyLog' = [found |-> config_key, made |-> 0, saves |-> 0]
            /\ pc' = IF config_key = NoKey THEN "crashed" ELSE "load"
    /\ UNCHANGED <<config, run, iv, pos, batch, frames, counters, store, csv, logs, prev>>

\* the for statement asks the generator for the next chunk
LoadChunk ==
    /\ pc = "load"
    /\ IF pos < Len(source.rows)
       THEN /\ chunk' = ReadChunk(source, pos, chunksize)
            /\ pos' = Min(pos + chunksize, Len(source.rows))
            /\ batch' = batch + 1
            /\ pc' = "validate"
       ELSE /\ pc' = "export"
            /\ UNCHANGED <<chunk, pos, batch>>
    /\ UNCHANGED <<config, run, keyring, iv, customer_df, product_df, sales_df,
                   counters, store, csv, logs, prev>>

AfterStageSwallowed(raised, next) == next

\* what main() does when a stage raises: the outer except logs and main returns
AfterStage(raised, next) == IF raised THEN "aborted" ELSE next

Validate ==
    /\ pc = "validate"
    /\ IF {"year_of_birth", "premium"} \subseteq chunk.cols
       THEN chunk' = ValidateData(chunk) /\ pc' = AfterStage(FALSE, "encrypt")
       ELSE chunk' = chunk /\ pc' = AfterStage(TRUE, "encrypt")
    /\ UNCHANGED <<config, run, keyring, iv, pos, batch, customer_df, product_df,
                   sales_df, counters, store, csv, logs, prev>>

Encrypt ==
    /\ pc = "encrypt"
    /\ chunk' = EncryptData(chunk, cipher, encrypt, iv)
    /\ iv' = iv + TokensMade(chunk, encrypt)
    /\ pc' = "extract_customer"
    /\ UNCHANGED <<config, run, keyring, pos, batch, customer_df, product_df,
                   sales_df, counters, store, csv, logs, prev>>

\* the rows of one extraction, as the history keeps them
Extracted(df, idCol, keyCols) ==
    [i \in 1..Len(df.rows) |->
       [batch |-> batch, id |-> df.rows[i][idCol], key |-> Project(df.rows[i], keyCols)]]

ExtractCustomer ==
    /\ pc = "extract_customer"
    /\ IF CustomerCols \subseteq chunk.cols
       THEN LET d == ExtractCustomerDimension(chunk, last_customer_id)
            IN  /\ customer_df' = d
                /\ last_customer_id' = CounterAfterExtract(last_customer_id, Len(d.rows))
                /\ custLog' = custLog \o Extracted(d, "customer_id", CustomerCols)
                /\ pc' = AfterStage(FALSE, "extract_product")
       ELSE /\ pc' = AfterStage(TRUE, "extract_product")
            /\ UNCHANGED <<customer_df, last_customer_id, custLog>>
    /\ UNCHANGED <<config, run, keyring, iv, pos, batch, chunk, product_df, sales_df,
                   last_transaction_id, last_product_id, store, csv, prodLog, txLog, factLog,
                   loadLog, prev>>

ExtractProduct ==
    /\ pc = "extract_product"
    /\ IF ProductCols \subseteq chunk.cols
       THEN LET d == ExtractProductDimension(chunk, last_product_id)
            IN  /\ product_df' = d
                /\ last_product_id' = CounterAfterExtract(last_product_id, Len(d.rows))
                /\ prodLog' = prodLog \o Extracted(d, "product_id", ProductCols)
                /\ pc' = AfterStage(FALSE, "create_sales")
       ELSE /\ pc' = AfterStage(TRUE, "create_sales")
            /\ UNCHANGED <<product_df, last_product_id, prodLog>>
    /\ UNCHANGED <<config, run, keyring, iv, pos, batch, chunk, customer_df, sales_df,
                   last_transaction_id, last_customer_id, store, csv, custLog, txLog, factLog,
                   loadLog, prev>>

CreateSales ==
    /\ pc = "create_sales"
    /\ IF RequiredColumns \subseteq chunk.cols
       THEN LET r == CreateSalesDf(chunk, customer_df, product_df, last_transaction_id)
            IN  /\ sales_df' = r.sales_df
                /\ customer_df' = r.customer_df
                /\ product_df' = r.product_df
                /\ last_transaction_id' = r.last_transaction_id
                /\ txLog' = txLog \o [i \in 1..Len(r.sales_df.rows) |->
                                        r.sales_df.rows[i].transaction_id]
                /\ factLog' = factLog \o r.facts
                /\ pc' = AfterStage(FALSE, "upload_customer")
       ELSE /\ pc' = AfterStage(TRUE, "upload_customer")
            /\ UNCHANGED <<sales_df, customer_df, product_df, last_transaction_id, txLog,
                           factLog>>
    /\ UNCHANGED <<config, run, keyring, iv, pos, batch, chunk, last_customer_id,
                   last_product_id, store, csv, custLog, prodLog, loadLog, prev>>

UploadCustomer ==
    /\ pc = "upload_customer"
    /\ \E fault \in Faults :
         LET r == UploadDimension(customer_df, store, "dim_customer", fault)
         IN  /\ store' = r.store
             /\ customer_df' = r.df
             /\ loadLog' = Append(loadLog, LoadEntry(r, "dim_customer"))
             /\ pc' = AfterStage(r.raised, "upload_product")
    /\ UNCHANGED <<config, run, keyring, iv, pos, batch, chunk, product_df, sales_df,
                   counters, csv, custLog, prodLog, txLog, factLog, prev>>

UploadProduct ==
    /\ pc = "upload_product"
    /\ \E fault \in Faults :
         LET r == UploadDimension(product_df, store, "dim_product", fault)
         IN  /\ store' = r.store
             /\ product_df' = r.df
             /\ loadLog' = Append(loadLog, LoadEntry(r, "dim_product"))
             /\ pc' = AfterStage(r.raised, "upload_sales")
    /\ UNCHANGED <<config, run, keyring, iv, pos, batch, chunk, customer_df, sales_df,
                   counters, csv, custLog, prodLog, txLog, factLog, prev>>

\* upload_data, then lines 340-342 when it returns
UploadSales ==
    /\ pc = "upload_sales"
    /\ \E fault \in Faults :
         LET r == UploadData(sales_df, store, "sales", fault)
         IN  /\ store' = r.store
             /\ loadLog' = Append(loadLog, LoadEntry(r, "sales"))
             /\ pc' = AfterStage(r.raised, "load")
             /\ IF r.raised
                THEN sales_df' = r.df /\ UNCHANGED <<customer_df, product_df>>
                ELSE /\ sales_df' = DropCols(r.df, {"composite_key"})
                     /\ customer_df' = DropCols(customer_df, {"composite_key"})
                     /\ product_df' = DropCols(product_df, {"composite_key"})
    /\ UNCHANGED <<config, run, keyring, iv, pos, batch, chunk,
                   counters, csv, custLog, prodLog, txLog, factLog, prev>>

Export ==
    /\ pc = "export"
    /\ csv' = SaveAll(csv, store, 1)
    /\ pc' = "done"
    /\ UNCHANGED <<config, run, keyring, iv, pos, batch, frames, counters, store,
                   logs, prev>>

\* after a complete run the script is started once more, on the same source
\* (of at most MaxRerunRows rows) and the same store
Restart ==
    /\ pc = "done"
    /\ run = 1
    /\ Len(source.rows) <= MaxRerunRows
    /\ run' = run + 1
    /\ prev' = [outcome |-> pc, store |-> store]
    /\ pc' = "start"
    /\ cipher' = NoKey
    /\ keyLog' = NotProvisioned
    /\ pos' = 0
    /\ batch' = 0
    /\ chunk' = NoFrame
    /\ customer_df' = NoFrame
    /\ product_df' = NoFrame
    /\ sales_df' = NoFrame
    /\ last_transaction_id' = 0
    /\ last_customer_id' = 0
    /\ last_product_id' = 0
    /\ custLog' = << >>
    /\ prodLog' = << >>
    /\ txLog' = << >>
    /\ factLog' = << >>
    /\ loadLog' = << >>
    /\ UNCHANGED <<config, config_key, keys, iv, store, csv>>

Next ==
    \/ StartMain
    \/ LoadChunk
    \/ Validate
    \/ Encrypt
    \/ ExtractCustomer
    \/ ExtractProduct
    \/ CreateSales
    \/ UploadCustomer
    \/ UploadProduct
    \/ UploadSales
    \/ Export
    \/ Restart

Spec == Init /\ [][Next]_vars


(***************************************************************************)
(* The quality gate on its own: load_data and validate_data on batches     *)
(* with missing cells and with values on both sides of every limit.        *)
(***************************************************************************)
InitGate ==
    /\ source \in {[cols |-> SourceCols, rows |-> rs] :
                     rs \in SeqsUpTo(GateRecords, MaxGateRows)}
    /\ chunksize \in 1..MaxChunk
    /\ encrypt = FALSE
    /\ config_key = (IF encrypt THEN NoKey ELSE GivenKey)
    /\ run = 1
    /\ keys = 0
    /\ iv = 0
    /\ store = EmptyStore
    /\ csv = EmptyStore
    /\ prev = [outcome |-> "none", store |-> EmptyStore]
    /\ ProcessStart

NextGate ==
    \/ StartMain
    \/ LoadChunk
    \/ Validate

SpecGate == InitGate /\ [][NextGate]_vars

(***************************************************************************)
(* The incremental loader called again: when the three loads of a batch    *)
(* have returned, a frame of that batch is loaded once more, and again,    *)
(* into the store as those loads left it.                                  *)
(***************************************************************************)
\* the records of the loader's own specification: enough rows for a second
\* batch of two, of fewer kinds
LoaderRecords ==
    { Rec(CustA, ProdP, 1990, 5, 1),
      Rec(CustB, ProdP, 1990, 5, 1),
      Rec(CustC, ProdR, 1990, 5, 2) }

InitLoader ==
    /\ source \in {[cols |-> SourceCols, rows |-> rs] :
                     rs \in SeqsUpTo(LoaderRecords, MaxLoaderRows)}
    /\ chunksize \in 1..MaxChunk
    /\ encrypt \in BOOLEAN
    /\ config_key = (IF encrypt THEN NoKey ELSE GivenKey)
    /\ run = 1
    /\ keys = 0
    /\ iv = 0
    /\ store = EmptyStore
    /\ csv = EmptyStore
    /\ prev = [outcome |-> "none", store |-> EmptyStore]
    /\ ProcessStart

LoaderPc(t) ==
    CASE t = "dim_customer" -> "again_dim_customer"
      [] t = "dim_product" -> "again_dim_product"
      [] t = "sales" -> "again_sales"

Again(entries) == SelectSeq(entries, LAMBDA e : e.again)

Reload ==
    /\ run = 1
    /\ batch >= 1
    /\ Len(Again(loadLog)) < MaxLoads
    /\ \E t \in Tables :
         /\ pc \in {"load", LoaderPc(t)}
         /\ LET df == CASE t = "dim_customer" -> customer_df
                        [] t = "dim_product" -> product_df
                        [] t = "sales" -> sales_df
                r  == IF t = "sales" THEN UploadData(df, store, t, NoFault)
                      ELSE UploadDimension(df, store, t, NoFault)
            IN  /\ store' = r.store
                /\ loadLog' = Append(loadLog, [LoadEntry(r, t) EXCEPT !.again = TRUE])
                /\ customer_df' = IF t = "dim_customer" THEN r.df ELSE customer_df
                /\ product_df' = IF t = "dim_product" THEN r.df ELSE product_df
                /\ sales_df' = IF t = "sales" THEN r.df ELSE sales_df
                /\ pc' = LoaderPc(t)
    /\ UNCHANGED <<config, run, keyring, iv, pos, batch, chunk, counters, csv,
                   custLog, prodLog, txLog, factLog, prev>>

NextLoader ==
    \/ StartMain
    \/ LoadChunk
    \/ Validate
    \/ Encrypt
    \/ ExtractCustomer
    \/ ExtractProduct
    \/ CreateSales
    \/ UploadCustomer
    \/ UploadProduct
    \/ UploadSales
    \/ Export
    \/ Reload

SpecLoader == InitLoader /\ [][NextLoader]_vars


(***************************************************************************)
(* Key provisioning: the script started, and started again, on a           *)
(* configuration with or without a key, with encryption on or off.         *)
(***************************************************************************)
KeyRecords ==
    { Rec(CustA, ProdP, 1990, 5, 1),
      Rec(CustC, ProdR, 1990, 5, 2) }

InitKey ==
    /\ source \in {[cols |-> SourceCols, rows |-> rs] :
                     rs \in SeqsUpTo(KeyRecords, MaxKeyRows)}
    /\ chunksize \in 1..MaxChunk
    /\ encrypt \in BOOLEAN
    /\ config_key \in {NoKey, GivenKey}
    /\ run = 1
    /\ keys = 0
    /\ iv = 0
    /\ store = EmptyStore
    /\ csv = EmptyStore
    /\ prev = [outcome |-> "none", store |-> EmptyStore]
    /\ ProcessStart

SpecKey == InitKey /\ [][Next]_vars

(***************************************************************************)
(* Source files whose header lacks one of the columns, or none.            *)
(***************************************************************************)
Headers == {SourceCols} \cup {SourceCols \ {c} : c \in SourceCols}

InitSchema ==
    /\ source \in {[cols |-> h, rows |-> [i \in 1..Len(rs) |-> Project(rs[i], h)]] :
                     h \in Headers, rs \in SeqsUpTo(KeyRecords, MaxSchemaRows)}
    /\ chunksize \in 1..MaxChunk
    /\ encrypt \in BOOLEAN
    /\ config_key = (IF encrypt THEN NoKey ELSE GivenKey)
    /\ run = 1
    /\ keys = 0
    /\ iv = 0
    /\ store = EmptyStore
    /\ csv = EmptyStore
    /\ prev = [outcome |-> "none", store |-> EmptyStore]
    /\ ProcessStart

NextSchema ==
    \/ StartMain
    \/ LoadChunk
    \/ Validate
    \/ Encrypt
    \/ ExtractCustomer
    \/ ExtractProduct
    \/ CreateSales
    \/ UploadCustomer
    \/ UploadProduct
    \/ UploadSales
    \/ Export

SpecSchema == InitSchema /\ [][NextSchema]_vars

(***************************************************************************)
(* The claims.                                                             *)
(***************************************************************************)
KeysDistinct(log) ==
    \A i, j \in DOMAIN log :
       /\ (i # j => log[i].id # log[j].id)
       /\ (log[i].batch < log[j].batch => log[i].id < log[j].id)

\* C1: every extraction advances its counter by the number of rows it
\* extracted, so no two dimension rows extracted in one run share a surrogate
\* key and the keys of a later batch are greater than those of an earlier one.
C1_SurrogateKeysNeverCollide ==
    /\ last_customer_id = Len(custLog)
    /\ last_product_id = Len(prodLog)
    /\ KeysDistinct(custLog)
    /\ KeysDistinct(prodLog)

\* C2: a second processing of the same source, in a fresh process, against
\* the store the first complete processing populated appends no row to any
\* of the three tables.
C2_RerunAppendsNothing ==
    (run = 2 /\ prev.outcome = "done") => \A t \in Tables : store[t] = prev.store[t]

\* the first load of the frame that a later load repeats
FirstLoad(e) ==
    CHOOSE k \in DOMAIN loadLog :
       /\ ~loadLog[k].again
       /\ loadLog[k].batch = e.batch
       /\ loadLog[k].table = e.table

\* C3: once the upload of a candidate has completed, a second upload of the
\* same candidate against the resulting store appends zero rows, for each of
\* the three tables.
C3_SecondUploadAppendsNothing ==
    \A k \in DOMAIN loadLog :
       loadLog[k].again =>
          /\ ~loadLog[FirstLoad(loadLog[k])].raised
          /\ ~loadLog[k].raised
          /\ loadLog[k].appended = 0
          /\ loadLog[k].after = loadLog[k].before

C3_Witness ==
    \E k \in DOMAIN loadLog :
       /\ loadLog[k].again
       /\ loadLog[FirstLoad(loadLog[k])].appended > 0
       /\ loadLog[k].table = "sales"

\* the surrogate key the extraction of this batch gave to the business key
ResolvesTo(log, key, id) ==
    \E k \in DOMAIN log : log[k].batch = batch /\ log[k].key = key /\ log[k].id = id

\* C4: create_sales_df produces one fact row per row of the batch, and each
\* fact row carries the non-null surrogate keys of the customer and product
\* rows, extracted from the same batch, that have the business key of its
\* source record.
C4_FactsResolveToTheirDimensions ==
    pc = "upload_customer" =>
       /\ Len(sales_df.rows) = Len(chunk.rows)
       /\ \A i \in 1..Len(chunk.rows) :
             /\ sales_df.rows[i].customer_id # NullId
             /\ sales_df.rows[i].product_id # NullId
             /\ ResolvesTo(custLog, Project(chunk.rows[i], CustomerCols),
                           sales_df.rows[i].customer_id)
             /\ ResolvesTo(prodLog, Project(chunk.rows[i], ProductCols),
                           sales_df.rows[i].product_id)

\* C5: over the batches of a run the transaction_id values are 1, 2, 3, ...
\* in assembly order (each batch continues at last_transaction_id + 1) and
\* last_transaction_id is the number of fact rows assembled so far.
C5_TransactionIdsContiguous ==
    /\ \A i \in DOMAIN txLog : txLog[i] = i
    /\ last_transaction_id = Len(txLog)
    /\ pc \in {"upload_customer", "upload_product", "upload_sales"} =>
          \A i \in 1..Len(sales_df.rows) :
             sales_df.rows[i].transaction_id = last_transaction_id - Len(sales_df.rows) + i

C5_Witness ==
    /\ batch = 2
    /\ pc = "upload_customer"
    /\ Len(txLog) = 3
    /\ Len(sales_df.rows) = 1

\* one row per distinct business key of the chunk, numbered from last + 1
OnePerKey(df, keyCols, idCol, last) ==
    LET keysOf(rows) == {Project(rows[i], keyCols) : i \in 1..Len(rows)}
    IN  /\ keysOf(df.rows) = keysOf(chunk.rows)
        /\ Len(df.rows) = Cardinality(keysOf(chunk.rows))
        /\ \A i \in 1..Len(df.rows) : df.rows[i][idCol] = last + i

\* C6: within one batch each extraction returns exactly one row per distinct
\* business key of the batch, and the surrogate keys of those rows are the
\* contiguous integers that start at the counter + 1.
C6_OneRowPerBusinessKey ==
    /\ pc = "extract_product" =>
          OnePerKey(customer_df, CustomerCols, "customer_id", last_customer_id)
    /\ pc = "create_sales" =>
          /\ OnePerKey(customer_df, CustomerCols, "customer_id", last_customer_id)
          /\ OnePerKey(product_df, ProductCols, "product_id", last_product_id)

C6_Witness ==
    /\ pc = "create_sales"
    /\ Len(chunk.rows) = 2
    /\ Len(customer_df.rows) = 1
    /\ Len(product_df.rows) = 2

\* the k-th smallest member of a set of positions
Nth(S, k) == CHOOSE i \in S : Cardinality({j \in S : j <= i}) = k

\* a load that got as far as filtering
Filtered(e) == ~(e.raised /\ e.filtered.rows = << >>)

\* C7: filter_existing_data returns the candidate unchanged when the table
\* does not exist, and otherwise exactly the candidate rows, in their order,
\* whose composite key no row of the table has; the table then holds what it
\* held before followed by the rows the load appended, and nothing else.
C7_FilterKeepsExactlyTheNewRows ==
    \A k \in DOMAIN loadLog :
       LET e     == loadLog[k]
           taken == {CompositeKey(e.before.rows[i], e.table) : i \in 1..Len(e.before.rows)}
           fresh == {i \in 1..Len(e.candidate.rows) :
                       CompositeKey(e.candidate.rows[i], e.table) \notin taken}
       IN  Filtered(e) =>
             /\ ~e.before.exists => e.filtered = e.candidate
             /\ e.before.exists =>
                   /\ Len(e.filtered.rows) = Cardinality(fresh)
                   /\ \A n \in 1..Len(e.filtered.rows) :
                         e.filtered.rows[n] =
                            Project(e.candidate.rows[Nth(fresh, n)],
                                    e.candidate.cols \ {"composite_key"})
             /\ SubSeq(e.after.rows, 1, Len(e.before.rows)) = e.before.rows
             /\ Len(e.after.rows) = Len(e.before.rows) + e.appended
             /\ e.appended = (IF e.raised THEN 0 ELSE Len(e.filtered.rows))

C7_Witness ==
    \E k \in DOMAIN loadLog :
       /\ loadLog[k].before.exists
       /\ Len(loadLog[k].candidate.rows) = 2
       /\ Len(loadLog[k].filtered.rows) = 1
       /\ loadLog[k].filtered.rows[1].merge_key = loadLog[k].candidate.rows[2].merge_key

NoSharedMergeKey(tbl) ==
    \A i, j \in 1..Len(tbl.rows) : i # j => tbl.rows[i].merge_key # tbl.rows[j].merge_key

\* C8: no two rows of the persisted dim_customer share a merge_key, nor two
\* rows of dim_product, and rows extracted with different business keys
\* never have the same merge_key.
C8_MergeKeyIdentifiesEntity ==
    /\ NoSharedMergeKey(store["dim_customer"])
    /\ NoSharedMergeKey(store["dim_product"])
    /\ \A i, j \in DOMAIN custLog :
          custLog[i].key # custLog[j].key =>
             CustomerMergeKey(custLog[i].key) # CustomerMergeKey(custLog[j].key)
    /\ \A i, j \in DOMAIN prodLog :
          prodLog[i].key # prodLog[j].key =>
             ProductMergeKey(prodLog[i].key) # ProductMergeKey(prodLog[j].key)

Is(e, table, b) == e.table = table /\ e.batch = b /\ ~e.raised

\* C9: the loads of a batch are attempted in the order dim_customer,
\* dim_product, sales; the fact load starts only when both dimension loads of
\* its batch have returned with their rows in the store, and never when one
\* of them raised.
C9_DimensionsBeforeFacts ==
    /\ \A k \in DOMAIN loadLog :
          LET e == loadLog[k]
          IN  /\ e.table = "dim_customer" =>
                    k = 1 \/ Is(loadLog[k - 1], "sales", e.batch - 1)
              /\ e.table = "dim_product" =>
                    k > 1 /\ Is(loadLog[k - 1], "dim_customer", e.batch)
              /\ e.table = "sales" =>
                    /\ k > 2
                    /\ Is(loadLog[k - 1], "dim_product", e.batch)
                    /\ Is(loadLog[k - 2], "dim_customer", e.batch)
    /\ pc = "upload_sales" =>
          /\ \A i \in 1..Len(customer_df.rows) :
                customer_df.rows[i].merge_key
                   \in ExistingKeys(store["dim_customer"], "dim_customer")
          /\ \A i \in 1..Len(product_df.rows) :
                product_df.rows[i].merge_key
                   \in ExistingKeys(store["dim_product"], "dim_product")

C9_Witness ==
    /\ pc = "upload_sales"
    /\ batch = 2
    /\ Len(customer_df.rows) = 1
    /\ Len(store["dim_customer"].rows) = 2

\* the rows of the chunk as load_data yielded it that pass both checks
Passing(raw) ==
    {i \in 1..Len(raw.rows) :
        /\ Between(AgeOf(raw.rows[i].year_of_birth), 17, 100)
        /\ NotNegative(raw.rows[i].premium)}

\* C10: the output of validate_data holds only rows with age = current_year -
\* year_of_birth in [17, 100] and premium >= 0, and it holds every input row
\* that meets both conditions, in the input order.
C10_GateKeepsExactlyTheValidRows ==
    pc = "encrypt" =>
       /\ \A i \in 1..Len(chunk.rows) :
             /\ chunk.rows[i].age = AgeOf(chunk.rows[i].year_of_birth)
             /\ Between(chunk.rows[i].age, 17, 100)
             /\ NotNegative(chunk.rows[i].premium)
       /\ \E f \in [Passing(CurrentRaw) -> 1..Len(chunk.rows)] :
             /\ \A i, j \in Passing(CurrentRaw) : i < j => f[i] < f[j]
             /\ \A i \in Passing(CurrentRaw) :
                   Project(chunk.rows[f[i]], SourceCols \ {"income_range"})
                      = Project(CurrentRaw.rows[i], SourceCols \ {"income_range"})


\* what the exported files hold while this process has not exported
NotExported ==
    IF run = 1 THEN EmptyStore ELSE SaveAll(EmptyStore, prev.store, 1)

\* the table as the loads before the k-th of this run left it
Committed(t, k) ==
    LET mine == {j \in 1..(k - 1) : loadLog[j].table = t}
    IN  IF mine = {} THEN (IF run = 1 THEN NoTable ELSE prev.store[t])
        ELSE loadLog[CHOOSE j \in mine : \A i \in mine : i <= j].after

\* C11: a load that raises a store error logs the error and ends the run:
\* it is the last load of the run, no later batch is begun, nothing is
\* exported, and every table holds what the loads that completed before the
\* error committed.
C11_StoreErrorAbortsTheRun ==
    \A k \in DOMAIN loadLog :
       loadLog[k].raised =>
          /\ k = Len(loadLog)
          /\ pc = "aborted"
          /\ batch = loadLog[k].batch
          /\ loadLog[k].logged # << >>
          /\ loadLog[k].logged[Len(loadLog[k].logged)] = ErrorLine
          /\ csv = NotExported
          /\ \A t \in Tables : store[t] = Committed(t, k)

C11_Witness ==
    \E k \in DOMAIN loadLog :
       /\ loadLog[k].raised
       /\ loadLog[k].table = "sales"
       /\ batch = 2
       /\ Len(store["dim_customer"].rows) = 2

\* C12: every load that acquired a connection has released it when it ends,
\* and every row the load wrote before it ended is in the table afterwards,
\* on the error paths as on the normal one.
C12_ConnectionReleasedAndCommitted ==
    \A k \in DOMAIN loadLog :
       /\ loadLog[k].opened => loadLog[k].closed
       /\ loadLog[k].written > 0 => loadLog[k].committed
       /\ Len(loadLog[k].after.rows) = Len(loadLog[k].before.rows) + loadLog[k].written

\* C13: when the source lacks a required column, the first batch ends with an
\* error before its first load: the run never reaches a load, nothing is
\* written to the store, and the three counters are what they were before
\* the batch.
C13_MissingColumnFailsBeforeAnyLoad ==
    ~(RequiredColumns \subseteq source.cols) =>
       /\ loadLog = << >>
       /\ store = EmptyStore
       /\ last_transaction_id = 0
       /\ last_customer_id = 0
       /\ last_product_id = 0
       /\ batch <= 1
       /\ batch = 1 => pc \in {"validate", "encrypt", "extract_customer",
                               "extract_product", "create_sales", "aborted"}

C13_Witness ==
    /\ "timestamp" \notin source.cols
    /\ pc = "aborted"
    /\ batch = 1
    /\ Len(customer_df.rows) = 2
    /\ Len(product_df.rows) = 2

\* C14: a load whose filtered candidate is empty leaves the table, and
\* whether it exists, as it was and logs "No new rows to upload."; a load
\* whose filtered candidate is not empty appends exactly the filtered rows.
C14_EmptyFilterWritesNothing ==
    \A k \in DOMAIN loadLog :
       LET e == loadLog[k]
           n == Len(e.before.rows)
       IN  ~e.raised =>
              IF e.filtered.rows = << >>
              THEN /\ e.after = e.before
                   /\ e.written = 0
                   /\ e.logged = <<NoNewRowsLine>>
              ELSE /\ e.after.exists
                   /\ SubSeq(e.after.rows, 1, n) = e.before.rows
                   /\ Len(e.after.rows) = n + Len(e.filtered.rows)
                   /\ \A i \in 1..Len(e.filtered.rows) :
                         Project(e.after.rows[n + i], e.filtered.cols) = e.filtered.rows[i]
                   /\ e.logged = <<UploadedLine>>

C14_Witness ==
    \E k \in DOMAIN loadLog :
       /\ ~loadLog[k].raised
       /\ loadLog[k].table = "sales"
       /\ loadLog[k].candidate.rows # << >>
       /\ loadLog[k].filtered.rows = << >>
       /\ loadLog[k].logged = <<NoNewRowsLine>>

\* C15: with encryption on, rows of a batch with equal personal_id have equal
\* ciphertext, so the customer dimension has one row per distinct customer
\* of the batch as it was before encryption, and encrypting the batch again
\* with the same cipher gives the same rows.
C15_EncryptionDeterministicPerKey ==
    (encrypt /\ pc \in {"extract_customer", "extract_product"}) =>
       LET plain == ValidateData(CurrentRaw)
       IN  /\ \A i, j \in 1..Len(chunk.rows) :
                 plain.rows[i].personal_id = plain.rows[j].personal_id =>
                    chunk.rows[i].personal_id = chunk.rows[j].personal_id
           /\ EncryptData(plain, cipher, encrypt, iv) = chunk
           /\ pc = "extract_product" =>
                 Len(customer_df.rows) =
                    Cardinality({Project(plain.rows[i], CustomerCols) :
                                   i \in 1..Len(plain.rows)})

\* C16: in the product dimension create_sales_df leaves, a product value
\* with exactly one "|" has product_category = the part before it and
\* product_detail = the part after it, and a value with no or with several
\* "|" has neither, whatever the other values of the batch are.
C16_ProductSplitPerValue ==
    pc = "upload_customer" =>
       LET mine == SelectSeq(prodLog, LAMBDA e : e.batch = batch)
       IN  \A i \in 1..Len(product_df.rows) :
              LET parts == Split(ReplaceSpaces(mine[i].key.product), <<"|">>)
                  Unset(c) == c \notin product_df.cols \/ product_df.rows[i][c] = NoneStr
              IN  IF Len(parts) = 2
                  THEN /\ {"product_category", "product_detail"} \subseteq product_df.cols
                       /\ product_df.rows[i].product_category = parts[1]
                       /\ product_df.rows[i].product_detail = parts[2]
                  ELSE Unset("product_category") /\ Unset("product_detail")

\* the head of every token made with this key
TokenHead(key) == <<"[">> \o IntToStr(key) \o <<":">>

\* C17: once main() has set up its cipher: if encryption is on and the
\* configuration had no key, one new key was generated and saved to the
\* configuration; if the configuration had a key, that key is the cipher's
\* and the configuration was not rewritten; and every personal_id encrypted
\* in this run was encrypted with that one cipher.
C17_KeyProvisionedOncePerProcess ==
    pc \notin {"start", "crashed"} =>
       /\ (encrypt /\ keyLog.found = NoKey) =>
             /\ keyLog.made = 1
             /\ keyLog.saves = 1
             /\ cipher = keys
             /\ config_key = cipher
       /\ keyLog.found # NoKey =>
             /\ keyLog.made = 0
             /\ keyLog.saves = 0
             /\ cipher = keyLog.found
             /\ config_key = keyLog.found
       /\ encrypt =>
             \A k \in DOMAIN custLog :
                SubSeq(custLog[k].key.personal_id, 1, Len(TokenHead(cipher)))
                   = TokenHead(cipher)

\* the positions of the dimension rows that carry the surrogate key
Referenced(tbl, idCol, id) == {j \in 1..Len(tbl.rows) : tbl.rows[j][idCol] = id}

\* C18: between the batches of a run that began on an empty store, and at
\* its end, each persisted fact row references exactly one persisted
\* customer row and exactly one persisted product row, and these are the
\* rows of the customer and the product of the record the fact was built
\* from.
C18_PersistedFactsReferenceTheirDimensions ==
    (run = 1 /\ pc \in {"load", "export", "done"}) =>
       \A i \in 1..Len(store["sales"].rows) :
          LET s  == store["sales"].rows[i]
              f  == factLog[s.transaction_id]
              cs == Referenced(store["dim_customer"], "customer_id", s.customer_id)
              ps == Referenced(store["dim_product"], "product_id", s.product_id)
          IN  /\ Cardinality(cs) = 1
              /\ Cardinality(ps) = 1
              /\ \A j \in cs : store["dim_customer"].rows[j].merge_key
                                  = CustomerMergeKey(f.customer)
              /\ \A j \in ps : store["dim_product"].rows[j].merge_key
                                  = ProductMergeKey(f.product)

\* cipher.decrypt(token): the text the token was made from
Decrypt(token) ==
    LET parts == Split(SubSeq(token, 2, Len(token) - 1), <<":">>)
    IN  Join(SubSeq(parts, 3, Len(parts)), <<":">>)

\* the customer and the product of the record a fact row was built from
Entity(tid) ==
    [factLog[tid] EXCEPT !.customer.personal_id = IF encrypt THEN Decrypt(@) ELSE @]

\* C19: in the first run on a store, a fact row that the sales load filters
\* out has, among the rows the table held before the load, a row built from
\* a record of the same customer and the same product with the same
\* sale_date and quantity.
C19_NoFalseDropOfFacts ==
    run = 1 =>
       \A k \in DOMAIN loadLog :
          LET e    == loadLog[k]
              kept == {e.filtered.rows[i].transaction_id : i \in 1..Len(e.filtered.rows)}
          IN  (e.table = "sales" /\ Filtered(e)) =>
                 \A i \in 1..Len(e.candidate.rows) :
                    e.candidate.rows[i].transaction_id \notin kept =>
                       \E j \in 1..Len(e.before.rows) :
                          /\ Entity(e.before.rows[j].transaction_id)
                                = Entity(e.candidate.rows[i].transaction_id)
                          /\ e.before.rows[j].sale_date = e.candidate.rows[i].sale_date
                          /\ e.before.rows[j].quantity = e.candidate.rows[i].quantity

\* the table holds what it held, followed by zero or more rows
AppendOnly(old, new) ==
    /\ old.exists => new.exists /\ new.cols = old.cols
    /\ Len(old.rows) <= Len(new.rows)
    /\ SubSeq(new.rows, 1, Len(old.rows)) = old.rows

\* C20: whatever a load does, each table afterwards holds the rows it held
\* before, unchanged and in place, followed by what was appended, and only
\* the table the load names changes.
C20_StoreIsAppendOnly ==
    [][\A t \in Tables :
          /\ AppendOnly(store[t], store'[t])
          /\ store'[t] # store[t] =>
                /\ Len(loadLog') = Len(loadLog) + 1
                /\ loadLog'[Len(loadLog')].table = t
                /\ \A u \in Tables \ {t} : store'[u] = store[u]]_vars

C20_Witness ==
    \E k, j \in DOMAIN loadLog :
       /\ loadLog[k].before.rows # << >>
       /\ loadLog[k].appended > 0
       /\ loadLog[j].raised
       /\ loadLog[j].written > 0

====
